---------------------------- MODULE Spec2Model ----------------------------
(***************************************************************************)
(* Model of the jwt_authn caches of source/extensions/filters/http/        *)
(* jwt_authn:                                                              *)
(*   - JwtCacheImpl (jwt_cache.cc): a bounded LRU cache of parsed tokens   *)
(*     keyed by raw token text, with an expiry check on every hit;         *)
(*   - JwksCacheImpl / JwksDataImpl (jwks_cache.cc): one entry per         *)
(*     configured provider, an issuer index, the expiration of the key     *)
(*     set and the lazily created per-provider token cache.                *)
(* SimpleLRUCache, Jwt::verifyTimeConstraint and CheckAudience are         *)
(* libraries the two files call; they are modelled by their contract.      *)
(***************************************************************************)
EXTENDS Integers, Sequences, FiniteSets, TLC

(***************************************************************************)
(* Bounds of the model.                                                    *)
(***************************************************************************)
\* raw token texts handed to JwtCacheImpl are 1..NumKeys
NumKeys == 3
\* the cache_size argument of JwtCache::create ranges over 0..MaxCacheSize
MaxCacheSize == 2
\* the system clock (seconds) runs from 0 to MaxNow
MaxNow == 2

\* the configuration has providers 1..NumProviders
NumProviders == 2
\* raw token texts handed to a provider's token cache are 1..NumEntryKeys
NumEntryKeys == 1
\* the monotonic clock is advanced at most MaxAdvances times
MaxAdvances == 2

(***************************************************************************)
(* Program constants.                                                      *)
(***************************************************************************)
kJwtCacheDefaultSize == 100
\* default lifetime of a remote key set, in seconds
PubkeyCacheExpirationSec == 600
\* default capacity of a provider's token cache
kJwtCacheSize == 100
\* std::chrono::steady_clock::time_point::max(), beyond every instant the clock reaches
TimePointMax == 2147483647
\* the weight JwtCacheImpl::insert passes to SimpleLRUCache::insert
InsertUnits == 1

Keys == 1..NumKeys

\* A parsed token: its nbf and exp claims in seconds (0: claim absent).
JwtSet == { [nbf |-> 0, exp |-> 0], [nbf |-> 1, exp |-> 1] }
\* nullptr of type Jwt*
NullJwt == [nbf |-> -1, exp |-> -1]

VARIABLES
  enable_cache,     \* constructor argument of JwtCacheImpl
  cache_size,       \* constructor argument of JwtCacheImpl
  jwt_cache_,       \* JwtCacheImpl::jwt_cache_ (alloc = FALSE: null pointer)
  system_time,      \* time_source_.systemTime() in seconds
  access_order,     \* history: cached keys by their last access, oldest first
  expired_removed,  \* history: keys removed on an expired hit, not inserted since
  inserted,         \* history: the keys passed to insert, by their last insert
  providers,        \* config.providers(): provider name -> JwtProvider
  jwks_data_map_,   \* JwksCacheImpl::jwks_data_map_: provider name -> JwksDataImpl
  issuer_ptr_map_,  \* JwksCacheImpl::issuer_ptr_map_: issuer -> the entry it points at
  monotonic_time,   \* time_source_.monotonicTime() in milliseconds
  advances,         \* how often the monotonic clock was advanced
  ret               \* the last operation, its arguments and what it returned

jwtVars == <<enable_cache, cache_size, jwt_cache_, system_time, access_order,
             expired_removed, inserted>>

jwksVars == <<providers, jwks_data_map_, issuer_ptr_map_, monotonic_time, advances>>

vars == <<jwtVars, jwksVars, ret>>

(***************************************************************************)
(* SimpleLRUCache<Key, Value>: table maps a key to its value and units,    *)
(* lru lists the unpinned keys from least to most recently used.           *)
(***************************************************************************)
NullCache == [alloc |-> FALSE, max_units |-> 0, table |-> <<>>, lru |-> <<>>]

NewCache(total_units) ==
  [alloc |-> TRUE, max_units |-> total_units, table |-> <<>>, lru |-> <<>>]

RECURSIVE SumUnits(_, _)
SumUnits(table, ks) ==
  IF ks = <<>> THEN 0 ELSE table[Head(ks)].units + SumUnits(table, Tail(ks))

\* units_ of the cache (no element stays pinned between two operations)
Units(c) == SumUnits(c.table, c.lru)

Without(seq, k) == SelectSeq(seq, LAMBDA x : x # k)

\* SimpleLRUCache::remove(k)
LRURemove(c, k) ==
  IF k \in DOMAIN c.table
  THEN [c EXCEPT !.table = [x \in (DOMAIN c.table) \ {k} |-> c.table[x]],
                 !.lru = Without(c.lru, k)]
  ELSE c

\* SimpleLRUCache::garbageCollect(): drop from the old end while over capacity
RECURSIVE GarbageCollect(_)
GarbageCollect(c) ==
  IF Units(c) > c.max_units /\ c.lru # <<>>
  THEN GarbageCollect(LRURemove(c, Head(c.lru)))
  ELSE c

\* SimpleLRUCache::insert(k, value, units): insertPinned then release
LRUInsert(c, k, value, units) ==
  LET c1 == LRURemove(c, k)
      c2 == [c1 EXCEPT
               !.table = [x \in (DOMAIN c1.table) \cup {k} |->
                            IF x = k THEN [value |-> value, units |-> units]
                                     ELSE c1.table[x]],
               !.lru = Append(c1.lru, k)]
  IN GarbageCollect(c2)

\* ScopedLookup on a present key, released with the entry still in the table:
\* the entry is unlinked while pinned and linked back as most recently used
LRUTouch(c, k) == [c EXCEPT !.lru = Append(Without(c.lru, k), k)]

CachedKeys(c) == DOMAIN c.table

\* Jwt::verifyTimeConstraint(now)
verifyTimeConstraint(jwt, now) ==
  IF now < jwt.nbf THEN "JwtNotYetValid"
  ELSE IF jwt.exp # 0 /\ now > jwt.exp THEN "JwtExpired"
  ELSE "Ok"

(***************************************************************************)
(* JwtCacheImpl                                                            *)
(***************************************************************************)
\* mutant: the constructor allocates the cache whatever enable_cache says
JwtCacheImpl_IgnoresEnable(enable, size) ==
  NewCache(IF size = 0 THEN kJwtCacheDefaultSize ELSE size)

\* JwtCacheImpl::JwtCacheImpl(enable_cache, cache_size, time_source)
JwtCacheImpl(enable, size) ==
  IF enable
  THEN NewCache(IF size = 0 THEN kJwtCacheDefaultSize ELSE size)
  ELSE NullCache

\* no JwksCache has been created
NoJwksCache ==
  /\ providers = <<>>
  /\ jwks_data_map_ = <<>>
  /\ issuer_ptr_map_ = <<>>
  /\ monotonic_time = 0
  /\ advances = 0

NoRet == [op |-> "none", key |-> 0, found |-> FALSE, jwt |-> NullJwt, evicted |-> {}]

InitJwt ==
  /\ enable_cache \in BOOLEAN
  /\ cache_size \in 0..MaxCacheSize
  /\ jwt_cache_ = JwtCacheImpl(enable_cache, cache_size)
  /\ system_time = 0
  /\ access_order = <<>>
  /\ expired_removed = {}
  /\ inserted = <<>>
  /\ ret = NoRet
  /\ NoJwksCache

\* keeps of the access history only the keys that are still cached
Cached(order, c) == SelectSeq(order, LAMBDA x : x \in CachedKeys(c))

\* what lookup leaves in ret
LookupRet(token, found_jwt, removed) ==
  [op |-> "lookup", key |-> token, found |-> found_jwt # NullJwt, jwt |-> found_jwt,
   evicted |-> removed]

\* lookup on a null jwt_cache_, or of a token that is not cached
LookupMiss(token) ==
  /\ ret' = LookupRet(token, NullJwt, {})
  /\ UNCHANGED <<jwt_cache_, access_order, expired_removed>>

\* mutant: an expired hit is reported as a miss but stays in the cache
lookup_KeepsExpired(token) ==
  /\ IF jwt_cache_.alloc /\ token \in CachedKeys(jwt_cache_)
     THEN LET found_jwt == jwt_cache_.table[token].value IN
          /\ jwt_cache_' = LRUTouch(jwt_cache_, token)
          /\ access_order' = Append(Without(access_order, token), token)
          /\ ret' = LookupRet(token,
                       IF verifyTimeConstraint(found_jwt, system_time) = "JwtExpired"
                       THEN NullJwt ELSE found_jwt, {})
          /\ UNCHANGED expired_removed
     ELSE LookupMiss(token)
  /\ UNCHANGED <<enable_cache, cache_size, system_time, inserted, jwksVars>>

\* mutant: an expired hit is removed but still returned to the caller
lookup_ReturnsExpired(token) ==
  /\ IF jwt_cache_.alloc /\ token \in CachedKeys(jwt_cache_)
     THEN LET found_jwt == jwt_cache_.table[token].value IN
          IF verifyTimeConstraint(found_jwt, system_time) = "JwtExpired"
          THEN /\ jwt_cache_' = LRURemove(jwt_cache_, token)
               /\ access_order' = Cached(access_order, jwt_cache_')
               /\ expired_removed' = expired_removed \cup {token}
               /\ ret' = LookupRet(token, found_jwt, {token})
          ELSE /\ jwt_cache_' = LRUTouch(jwt_cache_, token)
               /\ access_order' = Append(Without(access_order, token), token)
               /\ ret' = LookupRet(token, found_jwt, {})
               /\ UNCHANGED expired_removed
     ELSE LookupMiss(token)
  /\ UNCHANGED <<enable_cache, cache_size, system_time, inserted, jwksVars>>

\* mutant: a hit is read without the scoped lookup, so its recency is not refreshed
lookup_NoRefresh(token) ==
  /\ IF jwt_cache_.alloc /\ token \in CachedKeys(jwt_cache_)
     THEN LET found_jwt == jwt_cache_.table[token].value IN
          IF verifyTimeConstraint(found_jwt, system_time) = "JwtExpired"
          THEN /\ jwt_cache_' = LRURemove(jwt_cache_, token)
               /\ access_order' = Cached(access_order, jwt_cache_')
               /\ expired_removed' = expired_removed \cup {token}
               /\ ret' = LookupRet(token, NullJwt, {token})
          ELSE /\ access_order' = Append(Without(access_order, token), token)
               /\ ret' = LookupRet(token, found_jwt, {})
               /\ UNCHANGED <<jwt_cache_, expired_removed>>
     ELSE LookupMiss(token)
  /\ UNCHANGED <<enable_cache, cache_size, system_time, inserted, jwksVars>>

\* mutant: a hit is removed whenever the time check fails, not yet valid included
lookup_RemovesNotYetValid(token) ==
  /\ IF jwt_cache_.alloc /\ token \in CachedKeys(jwt_cache_)
     THEN LET found_jwt == jwt_cache_.table[token].value IN
          IF verifyTimeConstraint(found_jwt, system_time) # "Ok"
          THEN /\ jwt_cache_' = LRURemove(jwt_cache_, token)
               /\ access_order' = Cached(access_order, jwt_cache_')
               /\ expired_removed' = expired_removed \cup {token}
               /\ ret' = LookupRet(token, NullJwt, {token})
          ELSE /\ jwt_cache_' = LRUTouch(jwt_cache_, token)
               /\ access_order' = Append(Without(access_order, token), token)
               /\ ret' = LookupRet(token, found_jwt, {})
               /\ UNCHANGED expired_removed
     ELSE LookupMiss(token)
  /\ UNCHANGED <<enable_cache, cache_size, system_time, inserted, jwksVars>>

\* JwtCacheImpl::lookup(token)
lookup(token) ==
  /\ IF ~jwt_cache_.alloc
     THEN LookupMiss(token)
     ELSE IF token \in CachedKeys(jwt_cache_)
     THEN LET found_jwt == jwt_cache_.table[token].value IN
          IF verifyTimeConstraint(found_jwt, system_time) = "JwtExpired"
          THEN /\ jwt_cache_' = LRURemove(jwt_cache_, token)
               /\ access_order' = Cached(access_order, jwt_cache_')
               /\ expired_removed' = expired_removed \cup {token}
               /\ ret' = LookupRet(token, NullJwt, {token})
          ELSE /\ jwt_cache_' = LRUTouch(jwt_cache_, token)
               /\ access_order' = Append(Without(access_order, token), token)
               /\ ret' = LookupRet(token, found_jwt, {})
               /\ UNCHANGED expired_removed
     ELSE LookupMiss(token)
  /\ UNCHANGED <<enable_cache, cache_size, system_time, inserted, jwksVars>>

\* insert with the weight handed to SimpleLRUCache::insert
InsertWeighted(token, jwt, units) ==
  /\ IF jwt_cache_.alloc
     THEN /\ jwt_cache_' = LRUInsert(jwt_cache_, token, jwt, units)
          /\ access_order' =
               Cached(Append(Without(access_order, token), token), jwt_cache_')
          /\ expired_removed' = expired_removed \ {token}
          /\ ret' = [op |-> "insert", key |-> token,
                     found |-> token \in CachedKeys(jwt_cache_), jwt |-> NullJwt,
                     evicted |-> CachedKeys(jwt_cache_) \ CachedKeys(jwt_cache_')]
     ELSE /\ ret' = [op |-> "insert", key |-> token, found |-> FALSE,
                     jwt |-> NullJwt, evicted |-> {}]
          /\ UNCHANGED <<jwt_cache_, access_order, expired_removed>>
  /\ inserted' = Append(Without(inserted, token), token)
  /\ UNCHANGED <<enable_cache, cache_size, system_time, jwksVars>>

\* mutant: the entry is inserted with weight 0
insert_NoWeight(token, jwt) == InsertWeighted(token, jwt, 0)

\* mutant: an insert of a key that is cached keeps the cached entry as it is
insert_KeepsPresent(token, jwt) ==
  IF jwt_cache_.alloc /\ token \in CachedKeys(jwt_cache_)
  THEN /\ ret' = [op |-> "insert", key |-> token, found |-> TRUE,
                  jwt |-> NullJwt, evicted |-> {}]
       /\ inserted' = Append(Without(inserted, token), token)
       /\ UNCHANGED <<enable_cache, cache_size, jwt_cache_, system_time, access_order,
                      expired_removed, jwksVars>>
  ELSE InsertWeighted(token, jwt, InsertUnits)

\* JwtCacheImpl::insert(token, jwt)
insert(token, jwt) == InsertWeighted(token, jwt, InsertUnits)

\* the system clock advances by one second
AdvanceSystemTime ==
  /\ system_time < MaxNow
  /\ system_time' = system_time + 1
  /\ ret' = [NoRet EXCEPT !.op = "advance"]
  /\ UNCHANGED <<enable_cache, cache_size, jwt_cache_, access_order, expired_removed,
                 inserted, jwksVars>>

NextJwt ==
  \/ \E token \in Keys : lookup(token)
  \/ \E token \in Keys, jwt \in JwtSet : insert(token, jwt)
  \/ AdvanceSystemTime

SpecJwt == InitJwt /\ [][NextJwt]_vars

(***************************************************************************)
(* Configuration: JwtAuthentication.providers, a map from provider name to *)
(* JwtProvider.  jwks_source_specifier is a oneof, so a provider has       *)
(* either local_jwks or remote_jwks.  local_jwks stands for what           *)
(* Config::DataSource::read returns: "" (nothing inline), key material     *)
(* that parses ("valid") or key material that does not ("invalid").        *)
(* cache_duration is in seconds.                                           *)
(***************************************************************************)
ProviderNames == 1..NumProviders

ProviderConfigs ==
  { [issuer |-> "a", local_jwks |-> "valid", has_remote_jwks |-> FALSE,
     has_cache_duration |-> FALSE, cache_duration |-> 0,
     token_cache_size |-> 0, audiences |-> {}],
    [issuer |-> "a", local_jwks |-> "", has_remote_jwks |-> TRUE,
     has_cache_duration |-> TRUE, cache_duration |-> 120,
     token_cache_size |-> 1, audiences |-> {"svc1"}],
    [issuer |-> "", local_jwks |-> "invalid", has_remote_jwks |-> FALSE,
     has_cache_duration |-> FALSE, cache_duration |-> 0,
     token_cache_size |-> 1, audiences |-> {"svc1"}],
    [issuer |-> "", local_jwks |-> "", has_remote_jwks |-> TRUE,
     has_cache_duration |-> FALSE, cache_duration |-> 0,
     token_cache_size |-> 0, audiences |-> {}] }

\* issuers a caller asks findByIssuer for ("b" is configured nowhere)
IssuerArgs == {"", "a", "b"}
\* audience lists a caller asks areAudiencesAllowed for
AudienceArgs == { {}, {"svc1"} }
\* key sets a fetch hands to setRemoteJwks
RemoteJwks == { [status |-> "Ok", keys |-> "remote"] }
\* raw token texts of a provider's token cache, and the parsed token stored for them
EntryKeys == 1..NumEntryKeys
EntryJwt == [nbf |-> 0, exp |-> 0]
\* how far one step advances the monotonic clock, in milliseconds
AdvanceSteps == {120000, 480000}

\* a null JwksPtr
NullJwks == [status |-> "null", keys |-> "null"]
\* a null JwksData*
NullData == 0

\* Jwks::createFrom(inline_jwks, JWKS)
createFrom(inline_jwks) ==
  IF inline_jwks = "valid" THEN [status |-> "Ok", keys |-> "inline"]
  ELSE [status |-> "JwksParseError", keys |-> "inline"]

\* DurationUtil::durationToMilliseconds
durationToMilliseconds(seconds) == seconds * 1000

\* CheckAudience::areAudiencesAllowed
CheckAudience(config_audiences, jwt_audiences) ==
  config_audiences = {} \/ (config_audiences \cap jwt_audiences) # {}

Emplace(map, k, v) ==
  IF k \in DOMAIN map THEN map
  ELSE [x \in (DOMAIN map) \cup {k} |-> IF x = k THEN v ELSE map[x]]

Perms(S) ==
  { f \in [1..Cardinality(S) -> S] : \A i, j \in DOMAIN f : f[i] = f[j] => i = j }

(***************************************************************************)
(* JwksDataImpl                                                            *)
(***************************************************************************)
\* mutant: the key set is stored and the expiration is left as it was
setKey_KeepsExpiration(data, jwks, expire) ==
  [data EXCEPT !.jwks_obj_ = jwks]

\* JwksDataImpl::setKey(jwks, expire)
setKey(data, jwks, expire) ==
  [data EXCEPT !.jwks_obj_ = jwks, !.expiration_time_ = expire]

\* mutant: inline key material is installed with the default remote lifetime
JwksDataImpl_InlineExpires(jwt_provider) ==
  LET fresh == [jwks_obj_ |-> NullJwks, expiration_time_ |-> 0,
                token_cache_ |-> NullCache, set_at |-> -1]
      inline_jwks == jwt_provider.local_jwks
  IN IF inline_jwks # ""
     THEN LET data == setKey(fresh, createFrom(inline_jwks),
                             PubkeyCacheExpirationSec * 1000)
          IN IF data.jwks_obj_.status # "Ok"
             THEN [data EXCEPT !.jwks_obj_ = NullJwks]
             ELSE data
     ELSE fresh

\* mutant: a failed parse resets the expiration together with the key set
JwksDataImpl_InvalidResetsExpiration(jwt_provider) ==
  LET fresh == [jwks_obj_ |-> NullJwks, expiration_time_ |-> 0,
                token_cache_ |-> NullCache, set_at |-> -1]
      inline_jwks == jwt_provider.local_jwks
  IN IF inline_jwks # ""
     THEN LET data == setKey(fresh, createFrom(inline_jwks), TimePointMax)
          IN IF data.jwks_obj_.status # "Ok" THEN fresh ELSE data
     ELSE fresh

\* JwksDataImpl::JwksDataImpl(jwt_provider, time_source, api).  expiration_time_
\* has no initializer: a time_point is value-initialized to the clock's epoch, 0.
\* set_at is history: the instant of the last setRemoteJwks, -1 before the first
JwksDataImpl(jwt_provider) ==
  LET fresh == [jwks_obj_ |-> NullJwks, expiration_time_ |-> 0,
                token_cache_ |-> NullCache, set_at |-> -1]
      inline_jwks == jwt_provider.local_jwks
  IN IF inline_jwks # ""
     THEN LET data == setKey(fresh, createFrom(inline_jwks), TimePointMax)
          IN IF data.jwks_obj_.status # "Ok"
             THEN [data EXCEPT !.jwks_obj_ = NullJwks]
             ELSE data
     ELSE fresh

\* mutant: the default lifetime is the five minutes of the source comment
getRemoteJwksExpirationTime_FiveMinutes(jwt_provider, now) ==
  IF jwt_provider.has_remote_jwks /\ jwt_provider.has_cache_duration
  THEN now + durationToMilliseconds(jwt_provider.cache_duration)
  ELSE now + 300 * 1000

\* JwksDataImpl::getRemoteJwksExpirationTime()
getRemoteJwksExpirationTime(jwt_provider, now) ==
  IF jwt_provider.has_remote_jwks /\ jwt_provider.has_cache_duration
  THEN now + durationToMilliseconds(jwt_provider.cache_duration)
  ELSE now + PubkeyCacheExpirationSec * 1000

\* mutant: an entry expires only after its expiration instant
IsExpiredAt_Strict(data, now) == now > data.expiration_time_

\* JwksDataImpl::isExpired() at monotonic time now
IsExpiredAt(data, now) == now >= data.expiration_time_

(***************************************************************************)
(* JwksCacheImpl                                                           *)
(***************************************************************************)
\* the body of the constructor's loop, for the providers in the order the map
\* yields them; an issuer_ptr_map_ value is the provider name of the entry pointed at
RECURSIVE Load(_, _, _, _)
Load(config, order, data_map, issuer_map) ==
  IF order = <<>>
  THEN [data_map |-> data_map, issuer_map |-> issuer_map]
  ELSE LET name == Head(order)
           provider == config[name]
           dm == Emplace(data_map, name, JwksDataImpl(provider))
           im == IF provider.issuer \notin DOMAIN issuer_map
                 THEN Emplace(issuer_map, provider.issuer, name)
                 ELSE issuer_map
       IN Load(config, Tail(order), dm, im)

\* mutant: a provider with the empty issuer is not registered in the issuer index
JwksCacheImpl_SkipsEmptyIssuer(config, order) ==
  LET cache == Load(config, order, <<>>, <<>>)
  IN [cache EXCEPT !.issuer_map =
        [i \in (DOMAIN cache.issuer_map) \ {""} |-> cache.issuer_map[i]]]

\* JwksCacheImpl::JwksCacheImpl(config, time_source, api): the provider map is a
\* protobuf map, which is iterated in an order the configuration does not fix
JwksCacheImpl(config, order) == Load(config, order, <<>>, <<>>)

\* JwksCacheImpl::findIssuerMap(issuer)
findIssuerMap(issuer) ==
  IF issuer \notin DOMAIN issuer_ptr_map_ THEN NullData ELSE issuer_ptr_map_[issuer]

\* mutant: the fallback to the empty issuer is taken for the empty issuer too and
\* an exact match is not preferred over it
FindByIssuer_AlwaysFallback(issuer) ==
  IF "" \in DOMAIN issuer_ptr_map_ THEN findIssuerMap("") ELSE findIssuerMap(issuer)

\* what JwksCacheImpl::findByIssuer(issuer) returns
FindByIssuer(issuer) ==
  LET data == findIssuerMap(issuer)
  IN IF data = NullData /\ issuer # "" THEN findIssuerMap("") ELSE data

JwksRet(op, arg, val) == [op |-> op, arg |-> arg, val |-> val]

\* findByProvider reached NOT_REACHED_GCOVR_EXCL_LINE: the process is gone
Aborted == ret.op = "NOT_REACHED"

InitJwks ==
  /\ providers \in [ProviderNames -> ProviderConfigs]
  /\ \E order \in Perms(ProviderNames) :
       LET cache == JwksCacheImpl(providers, order)
       IN /\ jwks_data_map_ = cache.data_map
          /\ issuer_ptr_map_ = cache.issuer_map
  /\ monotonic_time = 0
  /\ advances = 0
  /\ ret = NoRet
  /\ enable_cache = FALSE
  /\ cache_size = 0
  /\ jwt_cache_ = NullCache
  /\ system_time = 0
  /\ access_order = <<>>
  /\ expired_removed = {}
  /\ inserted = <<>>

\* JwksCacheImpl::findByIssuer(issuer)
findByIssuer(issuer) ==
  /\ ~Aborted
  /\ ret' = JwksRet("findByIssuer", issuer, FindByIssuer(issuer))
  /\ UNCHANGED <<jwtVars, jwksVars>>

\* mutant: the entry is looked up through the issuer index, by the provider's issuer
findByProvider_ByIssuer(provider) ==
  /\ ~Aborted
  /\ ret' = IF provider \in DOMAIN jwks_data_map_
            THEN JwksRet("findByProvider", provider,
                         issuer_ptr_map_[providers[provider].issuer])
            ELSE JwksRet("NOT_REACHED", provider, NullData)
  /\ UNCHANGED <<jwtVars, jwksVars>>

\* JwksCacheImpl::findByProvider(provider)
findByProvider(provider) ==
  /\ ~Aborted
  /\ ret' = IF provider \in DOMAIN jwks_data_map_
            THEN JwksRet("findByProvider", provider, provider)
            ELSE JwksRet("NOT_REACHED", provider, NullData)
  /\ UNCHANGED <<jwtVars, jwksVars>>

\* mutant: an expired entry hands out no key set
getJwksObj_NullWhenExpired(provider) ==
  /\ ~Aborted
  /\ ret' = JwksRet("getJwksObj", provider,
                    IF IsExpiredAt(jwks_data_map_[provider], monotonic_time)
                    THEN NullJwks ELSE jwks_data_map_[provider].jwks_obj_)
  /\ UNCHANGED <<jwtVars, jwksVars>>

\* JwksDataImpl::getJwksObj() on the entry of provider
getJwksObj(provider) ==
  /\ ~Aborted
  /\ ret' = JwksRet("getJwksObj", provider, jwks_data_map_[provider].jwks_obj_)
  /\ UNCHANGED <<jwtVars, jwksVars>>

\* JwksDataImpl::areAudiencesAllowed(jwt_audiences) on the entry of provider
areAudiencesAllowed(provider, jwt_audiences) ==
  /\ ~Aborted
  /\ ret' = JwksRet("areAudiencesAllowed", provider,
                    CheckAudience(providers[provider].audiences, jwt_audiences))
  /\ UNCHANGED <<jwtVars, jwksVars>>

\* mutant: an expired key set is treated as unreachable instead of being reported
isExpired_AbortsWhenExpired(provider) ==
  /\ ~Aborted
  /\ ret' = IF IsExpiredAt(jwks_data_map_[provider], monotonic_time)
            THEN JwksRet("NOT_REACHED", provider, NullData)
            ELSE JwksRet("isExpired", provider, FALSE)
  /\ UNCHANGED <<jwtVars, jwksVars>>

\* JwksDataImpl::isExpired() on the entry of provider
isExpired(provider) ==
  /\ ~Aborted
  /\ ret' = JwksRet("isExpired", provider,
                    IsExpiredAt(jwks_data_map_[provider], monotonic_time))
  /\ UNCHANGED <<jwtVars, jwksVars>>

\* JwksDataImpl::setRemoteJwks(jwks) on the entry of provider
setRemoteJwks(provider, jwks) ==
  /\ ~Aborted
  /\ LET data == setKey(jwks_data_map_[provider], jwks,
                        getRemoteJwksExpirationTime(providers[provider], monotonic_time))
     IN /\ jwks_data_map_' =
             [jwks_data_map_ EXCEPT ![provider] = [data EXCEPT !.set_at = monotonic_time]]
        /\ ret' = JwksRet("setRemoteJwks", provider, data.jwks_obj_)
  /\ UNCHANGED <<jwtVars, providers, issuer_ptr_map_, monotonic_time, advances>>

\* the token cache getTokenCache creates when the entry has none
NewTokenCache(jwt_provider) ==
  IF jwt_provider.token_cache_size > 0
  THEN NewCache(jwt_provider.token_cache_size)
  ELSE NewCache(kJwtCacheSize)

\* mutant: a new token cache is made on every call
getTokenCache_Recreates(provider) ==
  /\ ~Aborted
  /\ jwks_data_map_' =
       [jwks_data_map_ EXCEPT ![provider].token_cache_ = NewTokenCache(providers[provider])]
  /\ ret' = JwksRet("getTokenCache", provider, jwks_data_map_'[provider].token_cache_)
  /\ UNCHANGED <<jwtVars, providers, issuer_ptr_map_, monotonic_time, advances>>

\* JwksDataImpl::getTokenCache() on the entry of provider
getTokenCache(provider) ==
  /\ ~Aborted
  /\ jwks_data_map_' =
       IF ~jwks_data_map_[provider].token_cache_.alloc
       THEN [jwks_data_map_ EXCEPT
               ![provider].token_cache_ = NewTokenCache(providers[provider])]
       ELSE jwks_data_map_
  /\ ret' = JwksRet("getTokenCache", provider, jwks_data_map_'[provider].token_cache_)
  /\ UNCHANGED <<jwtVars, providers, issuer_ptr_map_, monotonic_time, advances>>

\* the caller inserts a token into the cache getTokenCache returned
TokenCacheInsert(provider, token) ==
  /\ ~Aborted
  /\ jwks_data_map_[provider].token_cache_.alloc
  /\ jwks_data_map_' =
       [jwks_data_map_ EXCEPT
          ![provider].token_cache_ = LRUInsert(@, token, EntryJwt, InsertUnits)]
  /\ ret' = JwksRet("TokenCacheInsert", provider, token)
  /\ UNCHANGED <<jwtVars, providers, issuer_ptr_map_, monotonic_time, advances>>

\* the caller looks a token up in the cache getTokenCache returned
TokenCacheLookup(provider, token) ==
  /\ ~Aborted
  /\ jwks_data_map_[provider].token_cache_.alloc
  /\ LET cache == jwks_data_map_[provider].token_cache_
     IN IF token \in CachedKeys(cache)
        THEN /\ jwks_data_map_' =
                  [jwks_data_map_ EXCEPT ![provider].token_cache_ = LRUTouch(@, token)]
             /\ ret' = JwksRet("TokenCacheLookup", provider, token)
        ELSE /\ ret' = JwksRet("TokenCacheLookup", provider, 0)
             /\ UNCHANGED jwks_data_map_
  /\ UNCHANGED <<jwtVars, providers, issuer_ptr_map_, monotonic_time, advances>>

\* the monotonic clock advances
AdvanceMonotonicTime(step) ==
  /\ ~Aborted
  /\ advances < MaxAdvances
  /\ monotonic_time' = monotonic_time + step
  /\ advances' = advances + 1
  /\ ret' = JwksRet("advance", step, 0)
  /\ UNCHANGED <<jwtVars, providers, jwks_data_map_, issuer_ptr_map_>>

NextJwks ==
  \/ \E issuer \in IssuerArgs : findByIssuer(issuer)
  \/ \E provider \in 1..(NumProviders + 1) : findByProvider(provider)
  \/ \E provider \in DOMAIN jwks_data_map_ : getJwksObj(provider)
  \/ \E provider \in DOMAIN jwks_data_map_, jwt_audiences \in AudienceArgs :
       areAudiencesAllowed(provider, jwt_audiences)
  \/ \E provider \in DOMAIN jwks_data_map_ : isExpired(provider)
  \/ \E provider \in DOMAIN jwks_data_map_, jwks \in RemoteJwks :
       setRemoteJwks(provider, jwks)
  \/ \E provider \in DOMAIN jwks_data_map_ : getTokenCache(provider)
  \/ \E provider \in DOMAIN jwks_data_map_, token \in EntryKeys :
       TokenCacheInsert(provider, token)
  \/ \E provider \in DOMAIN jwks_data_map_, token \in EntryKeys :
       TokenCacheLookup(provider, token)
  \/ \E step \in AdvanceSteps : AdvanceMonotonicTime(step)

SpecJwks == InitJwks /\ [][NextJwks]_vars

(***************************************************************************)
(* The filter holds a JwksCacheImpl and a JwtCacheImpl created with        *)
(* caching disabled (InitJwks) and runs the operations whose outcome       *)
(* depends on a runtime condition: an issuer nobody configured, a key set  *)
(* past its expiration, a disabled token cache, a provider name nobody     *)
(* configured.  After NOT_REACHED nothing runs any more.                   *)
(***************************************************************************)
NextRuntime ==
  \/ \E issuer \in IssuerArgs : findByIssuer(issuer)
  \/ \E provider \in 1..(NumProviders + 1) : findByProvider(provider)
  \/ \E provider \in DOMAIN jwks_data_map_ : isExpired(provider)
  \/ \E provider \in DOMAIN jwks_data_map_, jwks \in RemoteJwks :
       setRemoteJwks(provider, jwks)
  \/ \E step \in AdvanceSteps : AdvanceMonotonicTime(step)
  \/ ~Aborted /\ \E token \in Keys : lookup(token)
  \/ ~Aborted /\ \E token \in Keys, jwt \in JwtSet : insert(token, jwt)

SpecRuntime == InitJwks /\ [][NextRuntime]_vars

(***************************************************************************)
(* Properties of JwtCacheImpl, checked under SpecJwt.                      *)
(***************************************************************************)
NumCached == Cardinality(CachedKeys(jwt_cache_))

\* the token's exp claim is set and lies before now
ExpiryPassed(jwt, now) == jwt.exp # 0 /\ now > jwt.exp

\* C1: a cache enabled with capacity N >= 1 never holds more than N entries,
\* whatever inserts, lookups and clock advances came before.
C1_AtMostCapacity ==
  (enable_cache /\ cache_size >= 1) => NumCached <= cache_size

\* an insert into a full cache has just evicted an entry and the cache is full again
C1_Witness ==
  /\ enable_cache /\ cache_size >= 1
  /\ ret.op = "insert" /\ ret.evicted # {}
  /\ NumCached = cache_size

C4_ReturnedTokenIsTimeValid ==
  (ret.op = "lookup" /\ ret.found)
    => verifyTimeConstraint(ret.jwt, system_time) = "Ok"

\* C4 amended: a lookup never returns a token that the time check reports expired
\* (that entry is removed and the lookup misses); a hit the check does not report
\* expired, a token that is not yet valid included, is returned and stays cached.
C4_ReturnedTokenNotExpired ==
  [][\A k \in Keys :
       (ret'.op = "lookup" /\ ret'.key = k /\ k \in CachedKeys(jwt_cache_))
       => LET jwt == jwt_cache_.table[k].value IN
          IF verifyTimeConstraint(jwt, system_time) = "JwtExpired"
          THEN ~ret'.found /\ k \notin CachedKeys(jwt_cache_')
          ELSE /\ ret'.found /\ ret'.jwt = jwt
               /\ k \in CachedKeys(jwt_cache_')
               /\ jwt_cache_'.table[k].value = jwt
    ]_vars

\* a lookup has just returned a token that is not yet valid
C4_Witness ==
  /\ ret.op = "lookup" /\ ret.found
  /\ verifyTimeConstraint(ret.jwt, system_time) = "JwtNotYetValid"
  /\ ret.key \in CachedKeys(jwt_cache_)

\* C5 as stated: a cache constructed with capacity 0 or with caching disabled holds
\* no entries and every lookup on it reports not-found.
C5_ZeroOrDisabledStaysEmpty ==
  (cache_size = 0 \/ ~enable_cache)
    => /\ NumCached = 0
       /\ ret.op = "lookup" => ~ret.found

\* C5 amended: a cache constructed with caching disabled, whatever its capacity
\* argument, holds no entries and every lookup on it reports not-found; a cache
\* enabled with capacity 0 has the default capacity of 100 entries.
C5_DisabledStaysEmpty ==
  /\ ~enable_cache
       => /\ ~jwt_cache_.alloc
          /\ NumCached = 0
          /\ ret.op = "lookup" => ~ret.found
  /\ (enable_cache /\ cache_size = 0)
       => /\ jwt_cache_.alloc
          /\ jwt_cache_.max_units = 100
          /\ ret.op = "insert" => ret.key \in CachedKeys(jwt_cache_)

\* on a disabled cache, a key that was inserted has just been looked up
C5_Witness ==
  /\ ~enable_cache
  /\ ret.op = "lookup" /\ \E i \in DOMAIN inserted : inserted[i] = ret.key

\* C16: an insert of a key that an enabled cache holds stores the inserted token
\* under that key, keeps the set of cached keys (so their number) as it was, leaves
\* every other entry untouched and makes the key the most recently used; the value
\* of a cached key changes in no other step, and a lookup that hits returns it, so
\* the next valid lookup returns the token inserted last.
C16_OverwriteReplacesAndRefreshes ==
  [][ /\ ( /\ ret'.op = "insert"
           /\ jwt_cache_.alloc
           /\ ret'.key \in CachedKeys(jwt_cache_) )
         => LET k == ret'.key IN
            /\ \A jwt \in JwtSet : jwt_cache_'.table[k].value # jwt => ~insert(k, jwt)
            /\ CachedKeys(jwt_cache_') = CachedKeys(jwt_cache_)
            /\ ret'.evicted = {}
            /\ \A x \in CachedKeys(jwt_cache_) \ {k} :
                 jwt_cache_'.table[x] = jwt_cache_.table[x]
            /\ jwt_cache_'.lru = Append(Without(jwt_cache_.lru, k), k)
            /\ access_order' = Append(Without(access_order, k), k)
      /\ \A k \in CachedKeys(jwt_cache_') :
           (k \in CachedKeys(jwt_cache_) /\ ~(ret'.op = "insert" /\ ret'.key = k))
             => jwt_cache_'.table[k].value = jwt_cache_.table[k].value
      /\ (ret'.op = "lookup" /\ ret'.found)
           => ret'.jwt = jwt_cache_.table[ret'.key].value
    ]_vars

\* a full cache of capacity 2: key 1 was cached when it was inserted again, nothing
\* was evicted, key 1 is the most recently used and holds a token with nbf and exp
C16_Witness ==
  /\ enable_cache /\ cache_size = 2 /\ NumCached = 2
  /\ ret.op = "insert" /\ ret.key = 1 /\ ret.found
  /\ ret.evicted = {}
  /\ jwt_cache_.lru = <<2, 1>>
  /\ jwt_cache_.table[1].value = [nbf |-> 1, exp |-> 1]

\* C17: a key becomes cached only in an insert of that key; a cached key stops being
\* cached only in an insert of another key into a full cache, as the entry accessed
\* least recently, or in a lookup of that key while its exp claim has passed; a
\* lookup caches no key and removes no key other than the one looked up.
C17_EntryStateMachine ==
  [][\A k \in Keys :
       /\ (k \notin CachedKeys(jwt_cache_) /\ k \in CachedKeys(jwt_cache_'))
            => (ret'.op = "insert" /\ ret'.key = k)
       /\ (k \in CachedKeys(jwt_cache_) /\ k \notin CachedKeys(jwt_cache_'))
            => \/ /\ ret'.op = "insert" /\ ret'.key # k
                  /\ ret'.key \notin CachedKeys(jwt_cache_)
                  /\ NumCached = jwt_cache_.max_units
                  /\ k = Head(access_order)
               \/ /\ ret'.op = "lookup" /\ ret'.key = k
                  /\ ExpiryPassed(jwt_cache_.table[k].value, system_time)
       /\ ret'.op = "lookup"
            => /\ CachedKeys(jwt_cache_') \subseteq CachedKeys(jwt_cache_)
               /\ CachedKeys(jwt_cache_) \ CachedKeys(jwt_cache_') \subseteq {ret'.key}
    ]_vars

\* a lookup has just removed a key whose exp claim has passed, and another key that
\* was inserted before is no longer cached because an insert evicted it
C17_Witness ==
  /\ ret.op = "lookup" /\ ret.evicted = {ret.key}
  /\ \E i \in DOMAIN inserted :
       /\ inserted[i] # ret.key
       /\ inserted[i] \notin CachedKeys(jwt_cache_)
       /\ inserted[i] \notin expired_removed

(***************************************************************************)
(* Properties of JwksCacheImpl and JwksDataImpl, checked under SpecJwks.   *)
(* The configuration order of the providers is the order of their names.   *)
(***************************************************************************)
ProvidersOf(issuer) == { p \in DOMAIN providers : providers[p].issuer = issuer }

FirstOf(S) == CHOOSE p \in S : \A q \in S : p <= q

\* C6: for an issuer that two or more providers share, findByIssuer returns the
\* entry of the first of them in configuration order, whatever the order in which
\* the constructor iterated the provider map.
C6_SharedIssuerFirstConfigured ==
  (ret.op = "findByIssuer" /\ Cardinality(ProvidersOf(ret.arg)) >= 2)
    => ret.val = FirstOf(ProvidersOf(ret.arg))

\* C7: findByIssuer("") returns an entry of the empty issuer if a provider has it and
\* not-found otherwise; findByIssuer(i), i not empty, returns an entry of issuer i
\* when a provider has it, otherwise an entry of the empty issuer when a provider
\* has that, otherwise not-found.
C7_ExactThenEmptyIssuerFallback ==
  /\ \A i \in IssuerArgs :
       LET val == FindByIssuer(i) IN
       IF ProvidersOf(i) # {} THEN val \in ProvidersOf(i)
       ELSE IF i # "" /\ ProvidersOf("") # {} THEN val \in ProvidersOf("")
       ELSE val = NullData
  /\ ret.op = "findByIssuer" => ret.val = FindByIssuer(ret.arg)

\* findByIssuer has just fallen back to the empty-issuer entry for an issuer that no
\* provider has, in a configuration that has a provider of another issuer as well
C7_Witness ==
  /\ ret.op = "findByIssuer" /\ ret.arg = "b"
  /\ ret.val # NullData
  /\ providers[ret.val].issuer = ""
  /\ ProvidersOf("a") # {}

\* the lifetime C8 names: the configured remote cache duration, or 600 seconds
RemoteLifetime(jwt_provider) ==
  IF jwt_provider.has_remote_jwks /\ jwt_provider.has_cache_duration
  THEN jwt_provider.cache_duration * 1000
  ELSE 600 * 1000

C9_InlineNeverExpires ==
  /\ \A p \in DOMAIN jwks_data_map_ :
       (providers[p].local_jwks = "valid" /\ jwks_data_map_[p].set_at = -1)
         => ~IsExpiredAt(jwks_data_map_[p], monotonic_time)
  /\ ( /\ ret.op = "isExpired"
       /\ providers[ret.arg].local_jwks = "valid"
       /\ jwks_data_map_[ret.arg].set_at = -1 )
       => ~ret.val

\* isExpired has just been asked of an inline entry after the clock advanced by more
\* than 600 seconds and tokens were put into the entry's token cache
C9_Witness ==
  /\ ret.op = "isExpired" /\ ~ret.val
  /\ providers[ret.arg].local_jwks = "valid"
  /\ jwks_data_map_[ret.arg].set_at = -1
  /\ monotonic_time > 600 * 1000
  /\ CachedKeys(jwks_data_map_[ret.arg].token_cache_) # {}

\* C10: getTokenCache creates the token cache of an entry on its first call only,
\* with the provider's token-cache size as capacity when that is greater than 0 and
\* 100 otherwise; a later call returns the cache as it is, with the entries
\* inserted so far; no operation removes or replaces the cache once it exists.
C10_TokenCacheCreatedOnce ==
  [][\A p \in DOMAIN jwks_data_map_ :
       LET old == jwks_data_map_[p].token_cache_
           new == jwks_data_map_'[p].token_cache_
       IN /\ (ret'.op = "getTokenCache" /\ ret'.arg = p)
             => /\ ret'.val = new
                /\ IF old.alloc THEN new = old
                   ELSE /\ new.alloc
                        /\ CachedKeys(new) = {}
                        /\ new.max_units = IF providers[p].token_cache_size > 0
                                           THEN providers[p].token_cache_size
                                           ELSE 100
          /\ (~old.alloc /\ new.alloc) => (ret'.op = "getTokenCache" /\ ret'.arg = p)
          /\ old.alloc => (new.alloc /\ new.max_units = old.max_units)
    ]_vars

\* a later getTokenCache call has just returned a cache that holds an inserted token
C10_Witness ==
  /\ ret.op = "getTokenCache"
  /\ CachedKeys(ret.val) # {}
  /\ ret.val = jwks_data_map_[ret.arg].token_cache_

\* C11: from construction on there is exactly one entry for each configured provider
\* name and none for any other name; no step adds or removes an entry; and
\* findByProvider of a configured name returns the entry stored under that name,
\* the same one on every call.
C11_OneEntryPerProvider ==
  [][ /\ DOMAIN jwks_data_map_ = DOMAIN providers
      /\ DOMAIN providers = ProviderNames
      /\ DOMAIN jwks_data_map_' = DOMAIN jwks_data_map_
      /\ providers' = providers
      /\ \A p \in ProviderNames :
           (ret'.op = "findByProvider" /\ ret'.arg = p) => ret'.val = p
    ]_vars

\* findByProvider has just returned the entry of a provider that shares its issuer
\* with the other provider and is not the one the issuer index points at, after
\* setRemoteJwks, getTokenCache and a token-cache insert ran on that entry
C11_Witness ==
  /\ ret.op = "findByProvider" /\ ret.val = ret.arg
  /\ issuer_ptr_map_[providers[ret.arg].issuer] # ret.arg
  /\ jwks_data_map_[ret.arg].set_at >= 0
  /\ CachedKeys(jwks_data_map_[ret.arg].token_cache_) # {}

(***************************************************************************)
(* Properties of both caches side by side, checked under SpecRuntime.      *)
(***************************************************************************)
\* C12: findByIssuer of any issuer returns an entry or not-found, isExpired returns
\* a boolean, lookup on a disabled token cache reports not-found and insert on it
\* stores nothing, none of them reaches NOT_REACHED or changes the provider index
\* or the issuer index; NOT_REACHED is reached by findByProvider of a name that is
\* not configured, and by nothing else.
C12_OnlyUnknownProviderIsFatal ==
  [][ /\ ret'.op = "findByIssuer"
           => ret'.val \in (DOMAIN jwks_data_map_) \cup {NullData}
      /\ ret'.op = "isExpired" => ret'.val \in BOOLEAN
      /\ ret'.op = "lookup" => (~ret'.found /\ ret'.jwt = NullJwt)
      /\ ret'.op \in {"lookup", "insert"}
           => (jwt_cache_' = jwt_cache_ /\ CachedKeys(jwt_cache_') = {})
      /\ ret'.op \in {"findByIssuer", "isExpired", "lookup", "insert", "findByProvider"}
           => /\ DOMAIN jwks_data_map_' = DOMAIN jwks_data_map_
              /\ issuer_ptr_map_' = issuer_ptr_map_
              /\ jwks_data_map_' = jwks_data_map_
      /\ ret'.op = "findByProvider" => ret'.arg \in DOMAIN jwks_data_map_
      /\ ret'.op = "NOT_REACHED" => ret'.arg \notin DOMAIN jwks_data_map_
      /\ ~Aborted
    ]_vars

\* the fatal state was reached by findByProvider of a name that is not configured,
\* after an insert into the disabled token cache and while an entry was expired
C12_Witness ==
  /\ Aborted /\ ret.arg = NumProviders + 1
  /\ inserted # <<>>
  /\ \E p \in DOMAIN jwks_data_map_ :
       /\ jwks_data_map_[p].set_at >= 0
       /\ IsExpiredAt(jwks_data_map_[p], monotonic_time)

\* the providers whose inline key material is not empty and does not parse
InvalidInline == { p \in DOMAIN providers : providers[p].local_jwks = "invalid" }

\* construction gave every provider an entry, and the entry of a provider whose
\* inline key material does not parse has a null key set until setRemoteJwks, and
\* is what findByProvider returns
InvalidInlineEntryNull ==
  /\ DOMAIN jwks_data_map_ = DOMAIN providers
  /\ \A p \in InvalidInline :
       /\ jwks_data_map_[p].set_at = -1 => jwks_data_map_[p].jwks_obj_ = NullJwks
       /\ (ret.op = "getJwksObj" /\ ret.arg = p /\ jwks_data_map_[p].set_at = -1)
            => ret.val = NullJwks
       /\ (ret.op = "findByProvider" /\ ret.arg = p) => ret.val = p

\* C13: construction completes for every mix of providers with valid, invalid or no
\* inline key material; a provider whose inline key material does not parse has an
\* entry with a null key set, which findByProvider returns and which findByIssuer
\* returns for its issuer when it is the first configured provider of that issuer.
C13_InvalidInlineStillRegistered ==
  /\ InvalidInlineEntryNull
  /\ \A p \in InvalidInline :
       p = FirstOf(ProvidersOf(providers[p].issuer))
         => /\ FindByIssuer(providers[p].issuer) = p
            /\ (ret.op = "findByIssuer" /\ ret.arg = providers[p].issuer)
                 => ret.val = p

\* C14 as stated: the expiration instant of every entry is either infinite, the entry
\* having been built from inline key material, or an instant that lay strictly
\* after the time at which a setRemoteJwks call stored it; in particular for an
\* entry without inline key material before its first setRemoteJwks.
C14_ExpirationInfiniteOrFuture ==
  \A p \in DOMAIN jwks_data_map_ :
    LET data == jwks_data_map_[p] IN
    \/ (data.expiration_time_ = TimePointMax /\ providers[p].local_jwks # "")
    \/ (data.set_at >= 0 /\ data.expiration_time_ > data.set_at)

\* C14 amended: after a setRemoteJwks call the expiration instant is the time of the
\* call plus the cache duration, strictly after that time for a positive duration;
\* before the first call it is infinite for an entry with non-empty inline key
\* material, parsed or not, and it is the epoch of the monotonic clock for an entry
\* without inline key material, which is therefore expired from construction on.
C14_ExpirationInfiniteFutureOrEpoch ==
  \A p \in DOMAIN jwks_data_map_ :
    LET data == jwks_data_map_[p] IN
    IF data.set_at >= 0
    THEN /\ data.expiration_time_ = data.set_at + RemoteLifetime(providers[p])
         /\ RemoteLifetime(providers[p]) > 0 => data.expiration_time_ > data.set_at
         /\ data.expiration_time_ < TimePointMax
    ELSE IF providers[p].local_jwks # ""
    THEN data.expiration_time_ = TimePointMax
    ELSE /\ data.expiration_time_ = 0
         /\ IsExpiredAt(data, monotonic_time)
         /\ (ret.op = "isExpired" /\ ret.arg = p) => ret.val

\* isExpired has just returned true for an entry without inline key material and
\* without a setRemoteJwks call, while the other entry, built from inline key
\* material, carries the finite expiration of a later setRemoteJwks call
C14_Witness ==
  /\ ret.op = "isExpired" /\ ret.val
  /\ providers[ret.arg].local_jwks = ""
  /\ jwks_data_map_[ret.arg].set_at = -1
  /\ \E q \in DOMAIN jwks_data_map_ :
       /\ providers[q].local_jwks # ""
       /\ jwks_data_map_[q].set_at > 0
       /\ jwks_data_map_[q].expiration_time_ > monotonic_time

\* the issuer strings that appear in the configuration
ConfiguredIssuers == { providers[p].issuer : p \in DOMAIN providers }

\* C15: in every reachable state the issuer index has an entry for each issuer
\* string of the configuration, the empty string included, and for no other string,
\* and each entry points at an entry of the provider index whose provider has that
\* issuer.
C15_IssuerIndexMatchesConfiguration ==
  /\ DOMAIN issuer_ptr_map_ = ConfiguredIssuers
  /\ \A i \in DOMAIN issuer_ptr_map_ :
       /\ issuer_ptr_map_[i] \in DOMAIN jwks_data_map_
       /\ providers[issuer_ptr_map_[i]].issuer = i

\* both providers have the empty issuer, the issuer index has one entry, and
\* findByIssuer("") has just returned the entry it points at, after a setRemoteJwks
C15_Witness ==
  /\ \A p \in DOMAIN providers : providers[p].issuer = ""
  /\ Cardinality(DOMAIN issuer_ptr_map_) = 1
  /\ ret.op = "findByIssuer" /\ ret.arg = ""
  /\ ret.val = issuer_ptr_map_[""]
  /\ \E p \in DOMAIN jwks_data_map_ : jwks_data_map_[p].set_at >= 0

\* C18: the key set and the expiration instant of an entry change in no step other
\* than a setRemoteJwks on that entry; getJwksObj returns the stored key set whether
\* or not the entry is expired; setRemoteJwks stores the key set it is given in
\* place of the old one, with a new expiration, and returns the stored key set.
C18_OnlySetRemoteJwksChangesKeys ==
  [][\A p \in DOMAIN jwks_data_map_ :
       LET old == jwks_data_map_[p]
           new == jwks_data_map_'[p]
       IN /\ (new.jwks_obj_ # old.jwks_obj_ \/ new.expiration_time_ # old.expiration_time_)
               => (ret'.op = "setRemoteJwks" /\ ret'.arg = p)
          /\ (ret'.op = "getJwksObj" /\ ret'.arg = p)
               => (ret'.val = old.jwks_obj_ /\ new = old)
          /\ (ret'.op = "setRemoteJwks" /\ ret'.arg = p)
               => /\ new.jwks_obj_ \in RemoteJwks
                  /\ ret'.val = new.jwks_obj_
                  /\ new.expiration_time_ = monotonic_time + RemoteLifetime(providers[p])
                  /\ new.token_cache_ = old.token_cache_
    ]_vars

\* getJwksObj has just returned the remote key set of an entry that is expired, the
\* clock having passed the expiration stored by the last setRemoteJwks
C18_Witness ==
  /\ ret.op = "getJwksObj"
  /\ ret.val \in RemoteJwks
  /\ jwks_data_map_[ret.arg].set_at >= 0
  /\ IsExpiredAt(jwks_data_map_[ret.arg], monotonic_time)
  /\ monotonic_time > jwks_data_map_[ret.arg].expiration_time_

\* the entry of p was built from inline key material that parses
InlineBuilt(p) == providers[p].local_jwks = "valid"

\* C19: setRemoteJwks at time T sets the expiration of the entry to T + D whatever
\* the entry held before; on an entry built from inline key material it replaces the
\* inline key set by the remote one and the infinite expiration by T + D (D being
\* 600 seconds, such a provider having no remote cache duration), and from then on
\* isExpired() is false before T + D and true from T + D on.
C19_SetRemoteJwksOnInlineEntry ==
  [][\A p \in DOMAIN jwks_data_map_ :
       LET old == jwks_data_map_[p]
           new == jwks_data_map_'[p]
       IN /\ (ret'.op = "setRemoteJwks" /\ ret'.arg = p)
               => /\ new.expiration_time_ = monotonic_time + RemoteLifetime(providers[p])
                  /\ (InlineBuilt(p) /\ old.set_at = -1)
                       => /\ old.expiration_time_ = TimePointMax
                          /\ old.jwks_obj_ = [status |-> "Ok", keys |-> "inline"]
                          /\ new.jwks_obj_ = [status |-> "Ok", keys |-> "remote"]
                          /\ new.expiration_time_ = monotonic_time + 600 * 1000
                          /\ new.expiration_time_ < TimePointMax
          /\ (InlineBuilt(p) /\ new.set_at >= 0)
               => /\ IsExpiredAt(new, monotonic_time')
                       <=> monotonic_time' >= new.set_at + 600 * 1000
                  /\ (ret'.op = "isExpired" /\ ret'.arg = p)
                       => (ret'.val <=> monotonic_time' >= new.set_at + 600 * 1000)
    ]_vars

\* isExpired has just returned true for an entry built from inline key material,
\* exactly 600 seconds after a setRemoteJwks replaced its key set
C19_Witness ==
  /\ ret.op = "isExpired" /\ ret.val
  /\ InlineBuilt(ret.arg)
  /\ jwks_data_map_[ret.arg].set_at >= 0
  /\ jwks_data_map_[ret.arg].jwks_obj_.keys = "remote"
  /\ monotonic_time = jwks_data_map_[ret.arg].set_at + 600 * 1000

\* C20: an entry whose non-empty inline key material did not parse has, until
\* setRemoteJwks is called on it, a null key set together with an infinite
\* expiration: getJwksObj returns null and isExpired() is false at every time.
C20_InvalidInlineNeverExpires ==
  \A p \in InvalidInline :
    jwks_data_map_[p].set_at = -1
      => /\ jwks_data_map_[p].jwks_obj_ = NullJwks
         /\ jwks_data_map_[p].expiration_time_ = TimePointMax
         /\ ~IsExpiredAt(jwks_data_map_[p], monotonic_time)
         /\ (ret.op = "isExpired" /\ ret.arg = p) => ~ret.val
         /\ (ret.op = "getJwksObj" /\ ret.arg = p) => ret.val = NullJwks

\* isExpired has just returned false for an entry with a null key set whose inline
\* key material did not parse, more than 600 seconds after construction
C20_Witness ==
  /\ ret.op = "isExpired" /\ ~ret.val
  /\ ret.arg \in InvalidInline
  /\ jwks_data_map_[ret.arg].set_at = -1
  /\ jwks_data_map_[ret.arg].jwks_obj_ = NullJwks
  /\ monotonic_time > 600 * 1000

=============================================================================
